---- MODULE Spec2Model ----
(***************************************************************************)
(* ExpoQueryRunner (src/src/driver/expo/ExpoQueryRunner.ts): the logical   *)
(* transaction bookkeeping (isTransactionActive, transactionDepth,         *)
(* transaction) and query(), with every await of the source as a point     *)
(* where the other asynchronous calls of the runner may run.               *)
(***************************************************************************)
EXTENDS Integers, Sequences, FiniteSets, TLC

\* Number of query() calls and of explicit startTransaction /
\* commitTransaction / rollbackTransaction calls made by the caller.
MaxQueries == 2
MaxCalls == 1

Queries == 1..MaxQueries
Calls == 1..MaxCalls

\* `undefined` in the slot this.transaction; the handle of query q's scope is q.
None == 0

\* BaseQueryRunner.isReleased: false after construction, and no operation of
\* ExpoQueryRunner sets it.
isReleased == FALSE

VARIABLES
    isTransactionActive,  \* BaseQueryRunner.isTransactionActive
    transactionDepth,     \* BaseQueryRunner.transactionDepth
    transaction,          \* this.transaction: None or the handle of a scope
    callOp,               \* explicit call c: "none", "start", "commit", "rollback"
    callPc,               \* explicit call c: where it is suspended / how it ended
    qpc,                  \* query q: position of query() and of its work callback
    failPc,               \* query q: position of its failure callback
    settled,              \* query q's promise: "pending", "resolved", "rejected"
    settleCount,          \* query q: number of ok(...) / fail(...) invocations
    connQ,                \* queries suspended at `await this.connect()`, in order
    engQ,                 \* scopes handed to the engine, in order; the head is open
    startEvents,          \* query q: start events broadcast by its work callback
    failLog,              \* query q: what the catch block of its work callback did
    shape                 \* the data of the one query SpecShape follows

ctl == <<isTransactionActive, transactionDepth, transaction>>
callVars == <<callOp, callPc>>
queryVars == <<qpc, failPc, settled, settleCount, connQ, engQ, startEvents>>
vars == <<isTransactionActive, transactionDepth, transaction,
          callOp, callPc, qpc, failPc, settled, settleCount, connQ, engQ,
          startEvents, failLog, shape>>

\* The logical transaction state a runner is created with: inactive, depth 0.
BaseQueryRunnerInit ==
    /\ isTransactionActive = FALSE
    /\ transactionDepth = 0

\* The state of the runner and of its callers before any call.
RunnerInit ==
    /\ BaseQueryRunnerInit
    /\ transaction = None
    /\ callOp = [c \in Calls |-> "none"]
    /\ callPc = [c \in Calls |-> "idle"]
    /\ qpc = [q \in Queries |-> "idle"]
    /\ failPc = [q \in Queries |-> "none"]
    /\ settled = [q \in Queries |-> "pending"]
    /\ settleCount = [q \in Queries |-> 0]
    /\ connQ = <<>>
    /\ engQ = <<>>
    /\ startEvents = [q \in Queries |-> <<>>]
    /\ failLog = [q \in Queries |-> <<>>]

\* No query is followed for its data.
ShapeIdle == [pc |-> "idle"]

Init ==
    /\ RunnerInit
    /\ shape = ShapeIdle

----------------------------------------------------------------------------
\* The bookkeeping steps of the three controller methods and of the
\* completion callback, shared by every caller of them.

\* startTransaction, line 52: runs synchronously when the method is called.
startTransactionEnter ==
    /\ isTransactionActive' = TRUE
    /\ UNCHANGED <<transactionDepth, transaction>>

\* startTransaction, lines 55-58: the BeforeTransactionStart broadcast raised.
startTransactionCatch_keepsActive ==
    UNCHANGED <<isTransactionActive, transactionDepth, transaction>>
startTransactionCatch ==
    /\ isTransactionActive' = FALSE
    /\ UNCHANGED <<transactionDepth, transaction>>

\* startTransaction, line 60: the BeforeTransactionStart broadcast resolved.
startTransactionIncrement ==
    /\ transactionDepth' = transactionDepth + 1
    /\ UNCHANGED <<isTransactionActive, transaction>>

\* commitTransaction, lines 74-78: the condition under which it throws
\* TransactionNotStartedError.
commitNotStarted_byDepth == transactionDepth = 0 /\ transaction = None
commitNotStarted == ~isTransactionActive /\ transaction = None

\* rollbackTransaction, lines 98-102.
rollbackNotStarted == ~isTransactionActive /\ transaction = None

\* commitTransaction, lines 82-85.
commitTransactionBody ==
    /\ transaction' = None
    /\ isTransactionActive' = FALSE
    /\ transactionDepth' = transactionDepth - 1

\* rollbackTransaction, lines 106-109.
rollbackTransactionBody ==
    /\ transaction' = None
    /\ isTransactionActive' = FALSE
    /\ transactionDepth' = transactionDepth - 1

\* query, lines 269-272: the completion callback.
completionCallback_keepsHandle ==
    /\ isTransactionActive' = FALSE
    /\ UNCHANGED <<transaction, transactionDepth>>
completionCallback ==
    /\ isTransactionActive' = FALSE
    /\ transaction' = None
    /\ UNCHANGED transactionDepth

\* ok(...) / fail(...) of query q's promise: only the first call settles it.
Settle(q, how) ==
    /\ settled' = [settled EXCEPT ![q] = IF @ = "pending" THEN how ELSE @]
    /\ settleCount' = [settleCount EXCEPT ![q] = @ + 1]

----------------------------------------------------------------------------
\* Explicit calls of the controller methods by the caller.

NextCall(c) == callOp[c] = "none" /\ \A d \in Calls : d < c => callOp[d] # "none"

\* startTransaction(), up to the await of line 54.
CallStartTransaction(c) ==
    /\ NextCall(c)
    /\ callOp' = [callOp EXCEPT ![c] = "start"]
    /\ callPc' = [callPc EXCEPT ![c] = "before"]
    /\ startTransactionEnter
    /\ UNCHANGED queryVars
    /\ UNCHANGED <<failLog, shape>>

\* commitTransaction(), up to the throw of line 78 or the await of line 80.
CallCommitTransaction(c) ==
    /\ NextCall(c)
    /\ callOp' = [callOp EXCEPT ![c] = "commit"]
    /\ callPc' = [callPc EXCEPT ![c] = IF commitNotStarted THEN "notStarted" ELSE "before"]
    /\ UNCHANGED <<ctl, queryVars>>
    /\ UNCHANGED <<failLog, shape>>

\* rollbackTransaction(), up to the throw of line 102 or the await of line 104.
CallRollbackTransaction(c) ==
    /\ NextCall(c)
    /\ callOp' = [callOp EXCEPT ![c] = "rollback"]
    /\ callPc' = [callPc EXCEPT ![c] = IF rollbackNotStarted THEN "notStarted" ELSE "before"]
    /\ UNCHANGED <<ctl, queryVars>>
    /\ UNCHANGED <<failLog, shape>>

\* The broadcast awaited at line 54 settles (ok: it resolved; otherwise it raised).
StartBeforeSettles(c, ok) ==
    /\ callOp[c] = "start" /\ callPc[c] = "before"
    /\ IF ok
       THEN startTransactionIncrement /\ callPc' = [callPc EXCEPT ![c] = "after"]
       ELSE startTransactionCatch /\ callPc' = [callPc EXCEPT ![c] = "threw"]
    /\ UNCHANGED <<callOp, queryVars>>
    /\ UNCHANGED <<failLog, shape>>

\* The broadcast awaited at line 62 settles.
StartAfterSettles(c, ok) ==
    /\ callOp[c] = "start" /\ callPc[c] = "after"
    /\ callPc' = [callPc EXCEPT ![c] = IF ok THEN "done" ELSE "threw"]
    /\ UNCHANGED <<ctl, callOp, queryVars>>
    /\ UNCHANGED <<failLog, shape>>

\* The broadcast awaited at line 80 settles.
CommitBeforeSettles(c, ok) ==
    /\ callOp[c] = "commit" /\ callPc[c] = "before"
    /\ IF ok
       THEN commitTransactionBody /\ callPc' = [callPc EXCEPT ![c] = "after"]
       ELSE UNCHANGED ctl /\ callPc' = [callPc EXCEPT ![c] = "threw"]
    /\ UNCHANGED <<callOp, queryVars>>
    /\ UNCHANGED <<failLog, shape>>

\* The broadcast awaited at line 104 settles.
RollbackBeforeSettles(c, ok) ==
    /\ callOp[c] = "rollback" /\ callPc[c] = "before"
    /\ IF ok
       THEN rollbackTransactionBody /\ callPc' = [callPc EXCEPT ![c] = "after"]
       ELSE UNCHANGED ctl /\ callPc' = [callPc EXCEPT ![c] = "threw"]
    /\ UNCHANGED <<callOp, queryVars>>
    /\ UNCHANGED <<failLog, shape>>

\* The broadcast awaited at line 87 settles.
CommitAfterSettles(c, ok) ==
    /\ callOp[c] = "commit" /\ callPc[c] = "after"
    /\ callPc' = [callPc EXCEPT ![c] = IF ok THEN "done" ELSE "threw"]
    /\ UNCHANGED <<ctl, callOp, queryVars>>
    /\ UNCHANGED <<failLog, shape>>

\* The broadcast awaited at line 111 settles.
RollbackAfterSettles(c, ok) ==
    /\ callOp[c] = "rollback" /\ callPc[c] = "after"
    /\ callPc' = [callPc EXCEPT ![c] = IF ok THEN "done" ELSE "threw"]
    /\ UNCHANGED <<ctl, callOp, queryVars>>
    /\ UNCHANGED <<failLog, shape>>

----------------------------------------------------------------------------
\* query().

NextQuery(q) == qpc[q] = "idle" /\ \A p \in Queries : p < q => qpc[p] # "idle"

\* query(), lines 152-155: throws when released, otherwise suspends at
\* connect(). queryEnter is the step without the data of the query.
queryEnter(q) ==
    /\ NextQuery(q)
    /\ IF isReleased
       THEN /\ qpc' = [qpc EXCEPT ![q] = "released"]
            /\ Settle(q, "rejected")
            /\ UNCHANGED connQ
       ELSE /\ qpc' = [qpc EXCEPT ![q] = "connect"]
            /\ connQ' = Append(connQ, q)
            /\ UNCHANGED <<settled, settleCount>>
    /\ UNCHANGED <<ctl, callVars, failPc, engQ, startEvents, failLog>>

Query(q) == queryEnter(q) /\ UNCHANGED shape

\* query(), lines 155-167: connect() resolved; the scope is handed to the engine.
Connected ==
    /\ connQ # <<>>
    /\ LET q == Head(connQ) IN
        /\ connQ' = Tail(connQ)
        /\ engQ' = Append(engQ, q)
        /\ qpc' = [qpc EXCEPT ![q] = "queued"]
    /\ UNCHANGED <<ctl, callVars, failPc, settled, settleCount,
                   startEvents>>
    /\ UNCHANGED <<failLog, shape>>

\* The engine's exclusive scope: it runs the work callback of the scope at the
\* head of its queue, one scope at a time.
EngineRunsWork(q) == engQ # <<>> /\ Head(engQ) = q /\ qpc[q] = "queued"

\* The engine calls the failure callback of a scope whose work callback rejected.
EngineFailsScope(q) == qpc[q] = "workRejected"

\* The engine closes a scope, and calls its completion callback, after the
\* work callback resolved or after it called the failure callback.
EngineClosesScope(q) ==
    engQ # <<>> /\ Head(engQ) = q /\ qpc[q] \in {"workDone", "failed"}

\* query(), line 169: whether the work callback starts a transaction.
lazyStartNeeded_inverted == transaction # None
lazyStartNeeded == transaction = None

\* The engine runs the work callback of the scope at the head of its queue:
\* lines 168-181, up to the await of line 54 (lazy start) or of line 177.
WorkBegins(q) ==
    /\ EngineRunsWork(q)
    /\ IF lazyStartNeeded
       THEN /\ startTransactionEnter
            /\ qpc' = [qpc EXCEPT ![q] = "startBefore"]
            /\ startEvents' = [startEvents EXCEPT ![q] = Append(@, "BeforeTransactionStart")]
       ELSE /\ UNCHANGED ctl
            /\ qpc' = [qpc EXCEPT ![q] = "run"]
            /\ UNCHANGED startEvents
    /\ UNCHANGED <<callVars, failPc, settled, settleCount, connQ, engQ>>
    /\ UNCHANGED <<failLog, shape>>

\* The lazy startTransaction(): the broadcast awaited at line 54 settles. When
\* it raised, startTransaction rethrows and the work callback rejects (line 170).
LazyStartBeforeSettles(q, ok) ==
    /\ qpc[q] = "startBefore"
    /\ IF ok
       THEN /\ startTransactionIncrement
            /\ qpc' = [qpc EXCEPT ![q] = "startAfter"]
            /\ startEvents' = [startEvents EXCEPT ![q] = Append(@, "AfterTransactionStart")]
       ELSE /\ startTransactionCatch
            /\ qpc' = [qpc EXCEPT ![q] = "workRejected"]
            /\ UNCHANGED startEvents
    /\ UNCHANGED <<callVars, failPc, settled, settleCount, connQ, engQ>>
    /\ UNCHANGED <<failLog, shape>>

\* The lazy startTransaction(): the broadcast awaited at line 62 settles.
LazyStartAfterSettles(q, ok) ==
    /\ qpc[q] = "startAfter"
    /\ qpc' = [qpc EXCEPT ![q] = IF ok THEN "startDone" ELSE "workRejected"]
    /\ UNCHANGED <<ctl, callVars, failPc, settled, settleCount, connQ, engQ,
                   startEvents>>
    /\ UNCHANGED <<failLog, shape>>

\* Lines 171-180: the work callback resumes after `await this.startTransaction()`,
\* stores the handle and submits the statement with runAsync.
LazyStartReturns(q) ==
    /\ qpc[q] = "startDone"
    /\ transaction' = q
    /\ qpc' = [qpc EXCEPT ![q] = "run"]
    /\ UNCHANGED <<isTransactionActive, transactionDepth, callVars, failPc,
                   settled, settleCount, connQ, engQ, startEvents>>
    /\ UNCHANGED <<failLog, shape>>

\* Lines 177-187: runAsync settles. Resolved: the rows are fetched through the
\* statement handle (line 181); raised: the fallback getAllAsync (line 183).
runAsyncSettled(q, ok) ==
    /\ qpc[q] = "run"
    /\ qpc' = [qpc EXCEPT ![q] = IF ok THEN "fetch" ELSE "fallback"]
    /\ UNCHANGED <<ctl, callVars, failPc, settled, settleCount, connQ, engQ,
                   startEvents, failLog>>

RunAsyncSettles(q, ok) == runAsyncSettled(q, ok) /\ UNCHANGED shape

\* Lines 181-204: the statement handle's getAllAsync settles. Resolved: the
\* after-query event is broadcast and awaited; raised: the fallback.
fetchSettled(q, ok) ==
    /\ qpc[q] = "fetch"
    /\ qpc' = [qpc EXCEPT ![q] = IF ok THEN "waitOk" ELSE "fallback"]
    /\ UNCHANGED <<ctl, callVars, failPc, settled, settleCount, connQ, engQ,
                   startEvents, failLog>>

FetchSettles(q, ok) == fetchSettled(q, ok) /\ UNCHANGED shape

\* Lines 245-259: what the catch block of the work callback does before it
\* awaits broadcasterResult.wait(): it logs the error and broadcasts the
\* after-query event with success = false.
CatchBlock == <<"logQueryError", "broadcastAfterQueryEvent(false)">>

\* Lines 183-204 and 244-260: the fallback getAllAsync settles. Raised: the
\* catch block logs, broadcasts the failed after-query event and awaits it.
fallbackSettled(q, ok) ==
    /\ qpc[q] = "fallback"
    /\ qpc' = [qpc EXCEPT ![q] = IF ok THEN "waitOk" ELSE "waitErr"]
    /\ failLog' = [failLog EXCEPT ![q] = IF ok THEN @ ELSE CatchBlock]
    /\ UNCHANGED <<ctl, callVars, failPc, settled, settleCount, connQ, engQ,
                   startEvents>>

FallbackSettles(q, ok) == fallbackSettled(q, ok) /\ UNCHANGED shape

\* Lines 204-243: broadcasterResult.wait() resolved; ok(...) is called and the
\* work callback resolves.
workResolved(q) ==
    /\ qpc[q] = "waitOk"
    /\ Settle(q, "resolved")
    /\ qpc' = [qpc EXCEPT ![q] = "workDone"]
    /\ UNCHANGED <<ctl, callVars, failPc, connQ, engQ, startEvents, failLog>>

WorkResolves(q) == workResolved(q) /\ UNCHANGED shape

\* Lines 260-263: broadcasterResult.wait() resolved in the catch block;
\* fail(new QueryFailedError(...)) is called and the work callback resolves.
workFailed(q) ==
    /\ qpc[q] = "waitErr"
    /\ Settle(q, "rejected")
    /\ qpc' = [qpc EXCEPT ![q] = "workDone"]
    /\ UNCHANGED <<ctl, callVars, failPc, connQ, engQ, startEvents, failLog>>

WorkFails(q) == workFailed(q) /\ UNCHANGED shape

\* Lines 265-266: the work callback rejected and the engine calls the failure
\* callback, which runs rollbackTransaction() up to its throw or first await.
FailureCallback(q) ==
    /\ EngineFailsScope(q)
    /\ qpc' = [qpc EXCEPT ![q] = "failed"]
    /\ failPc' = [failPc EXCEPT ![q] = IF rollbackNotStarted THEN "notStarted" ELSE "before"]
    /\ UNCHANGED <<ctl, callVars, settled, settleCount, connQ, engQ,
                   startEvents>>
    /\ UNCHANGED <<failLog, shape>>

\* The failure callback's rollbackTransaction(): the broadcast of line 104 settles.
FailureRollbackBeforeSettles(q, ok) ==
    /\ failPc[q] = "before"
    /\ IF ok
       THEN rollbackTransactionBody /\ failPc' = [failPc EXCEPT ![q] = "after"]
       ELSE UNCHANGED ctl /\ failPc' = [failPc EXCEPT ![q] = "threw"]
    /\ UNCHANGED <<callVars, qpc, settled, settleCount, connQ, engQ,
                   startEvents>>
    /\ UNCHANGED <<failLog, shape>>

\* The failure callback's rollbackTransaction(): the broadcast of line 111 settles.
FailureRollbackAfterSettles(q, ok) ==
    /\ failPc[q] = "after"
    /\ failPc' = [failPc EXCEPT ![q] = IF ok THEN "returned" ELSE "threw"]
    /\ UNCHANGED <<ctl, callVars, qpc, settled, settleCount, connQ, engQ,
                   startEvents>>
    /\ UNCHANGED <<failLog, shape>>

\* Line 267: the failure callback resumes after rollbackTransaction() and
\* calls fail(err).
FailureCallbackFails(q) ==
    /\ failPc[q] = "returned"
    /\ failPc' = [failPc EXCEPT ![q] = "done"]
    /\ Settle(q, "rejected")
    /\ UNCHANGED <<ctl, callVars, qpc, connQ, engQ, startEvents>>
    /\ UNCHANGED <<failLog, shape>>

\* Lines 269-272: the engine closes the scope and calls the completion
\* callback; the next scope of its queue may then begin.
ScopeCompletes(q) ==
    /\ EngineClosesScope(q)
    /\ completionCallback
    /\ qpc' = [qpc EXCEPT ![q] = "closed"]
    /\ engQ' = Tail(engQ)
    /\ UNCHANGED <<callVars, failPc, settled, settleCount, connQ,
                   startEvents>>
    /\ UNCHANGED <<failLog, shape>>

----------------------------------------------------------------------------
Next ==
    \/ \E c \in Calls : CallStartTransaction(c)
    \/ \E c \in Calls : CallCommitTransaction(c)
    \/ \E c \in Calls : CallRollbackTransaction(c)
    \/ \E c \in Calls, ok \in BOOLEAN : StartBeforeSettles(c, ok)
    \/ \E c \in Calls, ok \in BOOLEAN : StartAfterSettles(c, ok)
    \/ \E c \in Calls, ok \in BOOLEAN : CommitBeforeSettles(c, ok)
    \/ \E c \in Calls, ok \in BOOLEAN : RollbackBeforeSettles(c, ok)
    \/ \E c \in Calls, ok \in BOOLEAN : CommitAfterSettles(c, ok)
    \/ \E c \in Calls, ok \in BOOLEAN : RollbackAfterSettles(c, ok)
    \/ \E q \in Queries : Query(q)
    \/ Connected
    \/ \E q \in Queries : WorkBegins(q)
    \/ \E q \in Queries, ok \in BOOLEAN : LazyStartBeforeSettles(q, ok)
    \/ \E q \in Queries, ok \in BOOLEAN : LazyStartAfterSettles(q, ok)
    \/ \E q \in Queries : LazyStartReturns(q)
    \/ \E q \in Queries, ok \in BOOLEAN : RunAsyncSettles(q, ok)
    \/ \E q \in Queries, ok \in BOOLEAN : FetchSettles(q, ok)
    \/ \E q \in Queries, ok \in BOOLEAN : FallbackSettles(q, ok)
    \/ \E q \in Queries : WorkResolves(q)
    \/ \E q \in Queries : WorkFails(q)
    \/ \E q \in Queries : FailureCallback(q)
    \/ \E q \in Queries, ok \in BOOLEAN : FailureRollbackBeforeSettles(q, ok)
    \/ \E q \in Queries, ok \in BOOLEAN : FailureRollbackAfterSettles(q, ok)
    \/ \E q \in Queries : FailureCallbackFails(q)
    \/ \E q \in Queries : ScopeCompletes(q)

Spec == Init /\ [][Next]_vars

----------------------------------------------------------------------------
\* The data of one query: the first query() of a fresh runner, with no other
\* caller, followed from its call to the closing of its scope with what the
\* engine returns, the slow-query log, the shaped QueryResult and the value
\* the promise resolves with.

\* Rows a fetch returns at most, and the largest threshold (the elapsed time
\* goes one beyond it).
MaxRows == 2
MaxTime == 2

\* JavaScript values: undefined, a number, an array of rows, an array of
\* parameters, and a QueryResult (see shapeResult).
Absent == [k |-> "undefined"]
Num(n) == [k |-> "number", n |-> n]
Rows(r) == [k |-> "rows", rows |-> r]
Params(a) == [k |-> "parameters", items |-> a]

\* Query texts, as their characters.
InsertText == <<"I","N","S","E","R","T"," ","I","N","T","O"," ","t">>
LowerInsertText == <<"i","n","s","e","r","t"," ","i","n","t","o"," ","t">>
SelectText == <<"S","E","L","E","C","T"," ","1">>
ShortText == <<"I","N","S","E","R","T">>
QueryTexts == {InsertText, LowerInsertText, SelectText, ShortText}
InsertPrefix == <<"I","N","S","E","R","T"," ","I","N","T","O">>

ParameterValues == {Absent, Params(<<1>>)}
RowValues == {"r1", "r2"}
RowSequences == UNION {[1..n -> RowValues] : n \in 0..MaxRows}
\* What runAsync resolves with: a statement handle with an optional change
\* count and an optional last inserted row id.
StatementHandles ==
    [k : {"handle"},
     changes : {Absent, Num(0), Num(1)},
     lastInsertRowId : {Absent, Num(0), Num(7)}]
Thresholds == {Absent} \cup {Num(n) : n \in 0..MaxTime}
ElapsedTimes == 0..(MaxTime + 1)

\* String.prototype.startsWith, line 235.
startsWith(text, prefix) ==
    /\ Len(text) >= Len(prefix)
    /\ SubSeq(text, 1, Len(prefix)) = prefix

\* The truthiness of a JavaScript value (lines 207, 224, 242).
Truthy(v) ==
    CASE v.k = "undefined" -> FALSE
      [] v.k = "number" -> v.n # 0
      [] OTHER -> TRUE

\* Lines 225-228: the rows pushed one by one, in their order.
RECURSIVE resultSet_reversed(_)
resultSet_reversed(rows) ==
    IF rows = <<>> THEN <<>>
    ELSE Append(resultSet_reversed(Tail(rows)), Head(rows))
RECURSIVE resultSet(_)
resultSet(rows) ==
    IF rows = <<>> THEN <<>>
    ELSE <<Head(rows)>> \o resultSet(Tail(rows))

\* Lines 206-209: whether logQuerySlow is called.
slowQueryLogged_atThreshold(maxQueryExecutionTime, queryExecutionTime) ==
    Truthy(maxQueryExecutionTime) /\ queryExecutionTime >= maxQueryExecutionTime.n
slowQueryLogged(maxQueryExecutionTime, queryExecutionTime) ==
    Truthy(maxQueryExecutionTime) /\ queryExecutionTime > maxQueryExecutionTime.n

\* new QueryResult() (line 218): what a fresh result may hold before it is
\* shaped. It has no affected count; its raw and its records hold no row, and
\* each is either not set or an empty sequence.
NewQueryResults ==
    [k : {"result"}, affected : {Absent},
     raw : {Absent, Rows(<<>>)}, records : {Absent, Rows(<<>>)}]

\* Lines 218-237: the QueryResult made from a fresh one, a statement handle t
\* (Absent when runAsync raised) and the fetched rows.
shapeResult(query, t, rows, new) ==
    LET affected == IF t # Absent /\ t.changes # Absent THEN t.changes
                    ELSE new.affected
        hasRows == Len(rows) # 0
        set == Rows(resultSet(rows))
        raw == IF startsWith(query, InsertPrefix)
               THEN (IF t # Absent THEN t.lastInsertRowId ELSE Absent)
               ELSE IF hasRows THEN set ELSE new.raw
    IN [k |-> "result", affected |-> affected, raw |-> raw,
        records |-> IF hasRows THEN set ELSE new.records]

\* Lines 239-243: what ok(...) is called with.
resolvedValue(useStructuredResult, result) ==
    IF useStructuredResult THEN result
    ELSE IF Truthy(result.raw) THEN result.raw ELSE Rows(<<>>)

\* The arguments of query(query, parameters, useStructuredResult) and the
\* configured maxQueryExecutionTime, before anything was returned.
ShapeStart ==
    [pc : {"called"}, query : QueryTexts, parameters : ParameterValues,
     useStructuredResult : BOOLEAN, maxQueryExecutionTime : Thresholds,
     t : {Absent}, rows : {<<>>}, path : {"primary"}, slow : {<<>>}]

\* A fresh runner; no query was called.
ShapeInit ==
    /\ RunnerInit
    /\ shape = ShapeIdle

\* Lines 147-155: query() is called with its arguments.
ShapeQuery(s) ==
    /\ shape.pc = "idle"
    /\ \E q \in Queries : queryEnter(q)
    /\ shape' = s

\* Lines 177-183: runAsync resolves with a statement handle, or raises.
ShapeRunAsyncSettles(ok, h) ==
    /\ \E q \in Queries : runAsyncSettled(q, ok)
    /\ shape' = IF ok THEN [shape EXCEPT !.pc = "fetch", !.t = h]
                      ELSE [shape EXCEPT !.pc = "fallback", !.path = "fallback"]

\* Lines 189-204: the rows returned; the elapsed time is taken (line 192) and
\* the after-query event is broadcast and awaited.
shapeFetched(r, queryExecutionTime) ==
    [pc |-> "waitOk", query |-> shape.query, parameters |-> shape.parameters,
     useStructuredResult |-> shape.useStructuredResult,
     maxQueryExecutionTime |-> shape.maxQueryExecutionTime,
     t |-> shape.t, rows |-> r, path |-> shape.path, slow |-> shape.slow,
     queryExecutionTime |-> queryExecutionTime]

\* Lines 181-204: the statement handle's getAllAsync resolves with rows, or
\* raises.
ShapeFetchSettles(ok, r, queryExecutionTime) ==
    /\ \E q \in Queries : fetchSettled(q, ok)
    /\ shape' = IF ok THEN shapeFetched(r, queryExecutionTime)
                      ELSE [shape EXCEPT !.pc = "fallback", !.path = "fallback"]

\* Lines 183-204 and 244-260: the fallback getAllAsync resolves with rows, or
\* raises and the catch block awaits the failed after-query event.
ShapeFallbackSettles(ok, r, queryExecutionTime) ==
    /\ \E q \in Queries : fallbackSettled(q, ok)
    /\ shape' = IF ok THEN shapeFetched(r, queryExecutionTime)
                      ELSE [shape EXCEPT !.pc = "waitErr"]

\* Lines 204-243: broadcasterResult.wait() resolved; the slow query is logged
\* with the elapsed time taken before the wait, the result is shaped and the
\* promise is resolved.
ShapeWorkResolves(new) ==
    /\ \E q \in Queries : workResolved(q)
    /\ LET result == shapeResult(shape.query, shape.t, shape.rows, new)
           logged == IF slowQueryLogged(shape.maxQueryExecutionTime,
                                        shape.queryExecutionTime)
                     THEN <<[time |-> shape.queryExecutionTime,
                             query |-> shape.query,
                             parameters |-> shape.parameters]>>
                     ELSE <<>>
       IN shape' = [pc |-> "resolved", query |-> shape.query,
                    parameters |-> shape.parameters,
                    useStructuredResult |-> shape.useStructuredResult,
                    maxQueryExecutionTime |-> shape.maxQueryExecutionTime,
                    t |-> shape.t, rows |-> shape.rows, path |-> shape.path,
                    slow |-> shape.slow \o logged,
                    queryExecutionTime |-> shape.queryExecutionTime,
                    new |-> new, result |-> result,
                    value |-> resolvedValue(shape.useStructuredResult, result)]

\* Lines 260-263: broadcasterResult.wait() resolved in the catch block; the
\* promise is rejected with QueryFailedError.
ShapeWorkFails ==
    /\ \E q \in Queries : workFailed(q)
    /\ shape' = [shape EXCEPT !.pc = "rejected"]

\* The steps of the query: those that carry its data, and the steps of Next
\* that connect, run the scope, start the transaction lazily, handle a failed
\* scope and close the scope.
ShapeNext ==
    \/ \E s \in ShapeStart : ShapeQuery(s)
    \/ Connected
    \/ \E q \in Queries : WorkBegins(q)
    \/ \E q \in Queries, ok \in BOOLEAN : LazyStartBeforeSettles(q, ok)
    \/ \E q \in Queries, ok \in BOOLEAN : LazyStartAfterSettles(q, ok)
    \/ \E q \in Queries : LazyStartReturns(q)
    \/ \E ok \in BOOLEAN, h \in StatementHandles : ShapeRunAsyncSettles(ok, h)
    \/ \E ok \in BOOLEAN, r \in RowSequences, e \in ElapsedTimes :
          ShapeFetchSettles(ok, r, e)
    \/ \E ok \in BOOLEAN, r \in RowSequences, e \in ElapsedTimes :
          ShapeFallbackSettles(ok, r, e)
    \/ \E new \in NewQueryResults : ShapeWorkResolves(new)
    \/ ShapeWorkFails
    \/ \E q \in Queries : FailureCallback(q)
    \/ \E q \in Queries, ok \in BOOLEAN : FailureRollbackBeforeSettles(q, ok)
    \/ \E q \in Queries, ok \in BOOLEAN : FailureRollbackAfterSettles(q, ok)
    \/ \E q \in Queries : FailureCallbackFails(q)
    \/ \E q \in Queries : ScopeCompletes(q)

SpecShape == ShapeInit /\ [][ShapeNext]_vars

----------------------------------------------------------------------------
\* Steps named by the properties below.

\* Query q hands a statement to the engine in this step: runAsync (line 177),
\* the statement handle's getAllAsync (line 181) or the fallback (line 183).
Submits(q) ==
    \/ qpc[q] # "run" /\ qpc'[q] = "run"
    \/ qpc[q] # "fetch" /\ qpc'[q] = "fetch"
    \/ qpc[q] # "fallback" /\ qpc'[q] = "fallback"

\* Query q has handed its statement to the engine and its scope is still open.
Submitted(q) == qpc[q] \in {"run", "fetch", "fallback", "waitOk", "waitErr", "workDone"}

\* Everything query q's callbacks will ever do has been done.
Finished(q) ==
    /\ qpc[q] = "closed"
    /\ failPc[q] \in {"none", "notStarted", "threw", "done"}

StartSequence == <<"BeforeTransactionStart", "AfterTransactionStart">>

----------------------------------------------------------------------------
\* C1: the step in which the completion callback of a scope runs always ends
\* with isTransactionActive false and no stored handle, whether the scope's
\* work resolved or the scope failed and whatever explicit calls were made.
C1_CompletionResetsActiveAndHandle ==
    [][\A q \in Queries :
          ScopeCompletes(q) => (~isTransactionActive' /\ transaction' = None)]_vars

\* C1 witness: a failed scope has completed after an explicit commit went
\* through during it, and the state is inactive with no handle.
C1_Witness ==
    \E q \in Queries, c \in Calls :
        /\ qpc[q] = "closed" /\ failPc[q] # "none"
        /\ callOp[c] = "commit" /\ callPc[c] \in {"after", "done"}
        /\ ~isTransactionActive /\ transaction = None

\* C2: the step in which the completion callback of a scope runs ends with
\* transactionDepth = 0.
C2_CompletionResetsDepth ==
    [][\A q \in Queries : ScopeCompletes(q) => transactionDepth' = 0]_vars

\* C3: in every reachable state transactionDepth > 0 implies
\* isTransactionActive.
C3_DepthImpliesActive == transactionDepth > 0 => isTransactionActive

\* C4: in every reachable state transactionDepth = 0 implies that no handle
\* is stored.
C4_DepthZeroNoHandle == transactionDepth = 0 => transaction = None

\* C5: in every reachable state transactionDepth >= 0.
C5_DepthNonNegative == transactionDepth >= 0

\* C6 as stated: commitTransaction / rollbackTransaction called (by the caller
\* or by a failure callback) with transactionDepth = 0 and no stored handle
\* throws TransactionNotStartedError, broadcasts nothing and changes nothing.
C6_NotStartedByDepth ==
    [][/\ \A c \in Calls :
            (/\ CallCommitTransaction(c) \/ CallRollbackTransaction(c)
             /\ transactionDepth = 0 /\ transaction = None)
            => (callPc'[c] = "notStarted" /\ UNCHANGED ctl)
       /\ \A q \in Queries :
            (FailureCallback(q) /\ transactionDepth = 0 /\ transaction = None)
            => (failPc'[q] = "notStarted" /\ UNCHANGED ctl)]_vars

\* C6 amended: commitTransaction / rollbackTransaction called (by the caller
\* or by a failure callback) with isTransactionActive false and no stored
\* handle throws TransactionNotStartedError, broadcasts nothing (it never
\* reaches the await of its first broadcast) and changes nothing.
C6_NotStartedByActive ==
    [][/\ \A c \in Calls :
            (/\ CallCommitTransaction(c) \/ CallRollbackTransaction(c)
             /\ ~isTransactionActive /\ transaction = None)
            => (callPc'[c] = "notStarted" /\ UNCHANGED ctl)
       /\ \A q \in Queries :
            (FailureCallback(q) /\ ~isTransactionActive /\ transaction = None)
            => (failPc'[q] = "notStarted" /\ UNCHANGED ctl)]_vars

\* C6 witness: an explicit commit or rollback has thrown
\* TransactionNotStartedError in an inactive state with no handle, here one a
\* completed query left with transactionDepth > 0.
C6_Witness ==
    \E c \in Calls :
        /\ callPc[c] = "notStarted"
        /\ ~isTransactionActive /\ transaction = None /\ transactionDepth > 0

\* C7: once the scope of a query has completed and its failure callback, if
\* any, has run to its end, the query's promise has been settled, by exactly
\* one call of ok or fail.
C7_SettledExactlyOnce ==
    \A q \in Queries : Finished(q) => (settled[q] # "pending" /\ settleCount[q] = 1)

\* C8: whenever a query has handed its statement to the engine, its work
\* callback has broadcast exactly BeforeTransactionStart then
\* AfterTransactionStart, once each, before doing so.
C8_OneStartSequenceBeforeSubmission ==
    \A q \in Queries : Submitted(q) => startEvents[q] = StartSequence

\* C8 witness: the first query, called with no explicit call made (so with no
\* logical transaction active), awaits runAsync after one start sequence.
C8_Witness ==
    /\ qpc[1] = "run" /\ startEvents[1] = StartSequence
    /\ \A c \in Calls : callOp[c] = "none"

\* C9: no step hands a statement to the engine in a state where
\* isTransactionActive is false.
C9_SubmitOnlyWhenActive ==
    [][\A q \in Queries : Submits(q) => isTransactionActive]_vars

\* C10: when a query hands a statement to the engine, every query called
\* before it has been settled.
C10_SettledInCallOrder ==
    [][\A a, b \in Queries :
          (a < b /\ Submits(b)) => settled[a] # "pending"]_vars

\* C15: the step in which the BeforeTransactionStart broadcast of a
\* startTransaction() raises (called by the caller or by a work callback, from
\* an inactive or an active state) rethrows, ends with isTransactionActive
\* false, leaves transactionDepth as it was and broadcasts no
\* AfterTransactionStart.
C15_StartFailureReverts ==
    [][/\ \A c \in Calls :
            StartBeforeSettles(c, FALSE) =>
                /\ callPc'[c] = "threw"
                /\ ~isTransactionActive'
                /\ transactionDepth' = transactionDepth
       /\ \A q \in Queries :
            LazyStartBeforeSettles(q, FALSE) =>
                /\ qpc'[q] = "workRejected"
                /\ ~isTransactionActive'
                /\ transactionDepth' = transactionDepth
                /\ startEvents'[q] = <<"BeforeTransactionStart">>]_vars

\* C15 witness: an explicit startTransaction() has rethrown while the logical
\* transaction started by a query's work callback was under way (depth 1,
\* from that lazy start alone), and the state is inactive.
C15_Witness ==
    \E c \in Calls, q \in Queries :
        /\ callOp[c] = "start" /\ callPc[c] = "threw"
        /\ qpc[q] \in {"startAfter", "startDone"}
        /\ ~isTransactionActive /\ transactionDepth = 1

\* C16: the step in which a work callback fails its query with
\* QueryFailedError leaves the work callback rejected, so that the engine's
\* scope rejects.
C16_FailedStatementRejectsScope ==
    [][\A q \in Queries : WorkFails(q) => qpc'[q] = "workRejected"]_vars

\* C17: whenever a step fails a query's promise, the error has been logged
\* and the failed after-query event broadcast by that query, and the
\* bookkeeping has been reset (inactive, no handle).
C17_FailureOrder ==
    [][\A q \in Queries :
          (settled[q] = "pending" /\ settled'[q] = "rejected") =>
              /\ failLog[q] = CatchBlock
              /\ ~isTransactionActive /\ transaction = None]_vars

\* C18: a work callback that begins after an explicit startTransaction() has
\* returned (active, no handle stored) broadcasts no transaction start event
\* and leaves transactionDepth as it is.
C18_NoLazyStartWhenActive ==
    [][\A q \in Queries :
          (/\ WorkBegins(q)
           /\ isTransactionActive /\ transaction = None
           /\ \E c \in Calls : callOp[c] = "start" /\ callPc[c] = "done")
          => (startEvents'[q] = <<>> /\ qpc'[q] # "startBefore")]_vars

\* Query q's work callback is running (its scope is open and not yet ended).
Working(q) ==
    qpc[q] \in {"startBefore", "startAfter", "startDone", "run", "fetch",
                "fallback", "waitOk", "waitErr"}

\* C19: the rollbackTransaction() of the failure callback of a completed
\* scope a changes nothing of the bookkeeping while the work callback of a
\* later scope b is running.
C19_NoRollbackAcrossScopes ==
    [][\A a, b \in Queries :
          (/\ a # b /\ qpc[a] = "closed" /\ Working(b)
           /\ FailureRollbackBeforeSettles(a, TRUE))
          => UNCHANGED ctl]_vars

\* C20: once runAsync has resolved for a query, no step hands the same
\* statement to the engine's transaction object again.
C20_NoSecondSubmission ==
    [][\A q \in Queries : qpc[q] = "fetch" => qpc'[q] # "fallback"]_vars

----------------------------------------------------------------------------
\* Properties of the data of one query (SpecShape).

IsInsert == startsWith(shape.query, InsertPrefix)
Resolved == shape.pc = "resolved"

\* C11: a resolved query whose text starts with INSERT INTO has a statement
\* handle and a raw equal to that handle's lastInsertRowId, never the row
\* sequence, on the primary and on the fallback path.
C11_InsertRawIsRowId ==
    (Resolved /\ IsInsert) =>
        /\ shape.t # Absent
        /\ shape.result.raw = shape.t.lastInsertRowId
        /\ shape.result.raw.k # "rows"

\* C12: with useStructuredResult false the promise never resolves with the
\* QueryResult: it resolves with result.raw whenever raw is present (0
\* included) and with an empty sequence only when raw is absent.
C12_UnstructuredIsRawOrEmpty ==
    (Resolved /\ ~shape.useStructuredResult) =>
        /\ shape.value.k # "result"
        /\ shape.value = IF shape.result.raw # Absent THEN shape.result.raw
                         ELSE Rows(<<>>)

FallbackSucceeded == shape.pc = "waitOk" /\ shape.path = "fallback"

SlowLogOf(e) ==
    <<[time |-> e, query |-> shape.query, parameters |-> shape.parameters]>>

\* C14 as stated: for every threshold T >= 0, a resolved query with elapsed
\* time E has called logQuerySlow exactly once, with E, the query and the
\* parameters, if E > T, and never if E <= T.
C14_SlowLogAnyThreshold ==
    (Resolved /\ shape.maxQueryExecutionTime # Absent) =>
        IF shape.queryExecutionTime > shape.maxQueryExecutionTime.n
        THEN shape.slow = SlowLogOf(shape.queryExecutionTime)
        ELSE shape.slow = <<>>

\* C14 amended: the same for every threshold T > 0; with a threshold of 0
\* logQuerySlow is never called.
C14_SlowLogPositiveThreshold ==
    (Resolved /\ shape.maxQueryExecutionTime # Absent) =>
        IF /\ shape.maxQueryExecutionTime.n > 0
           /\ shape.queryExecutionTime > shape.maxQueryExecutionTime.n
        THEN shape.slow = SlowLogOf(shape.queryExecutionTime)
        ELSE shape.slow = <<>>

\* C14 witness: threshold 1, elapsed time 2, one call of logQuerySlow with 2.
C14_Witness ==
    /\ Resolved /\ shape.maxQueryExecutionTime = Num(1)
    /\ shape.queryExecutionTime = 2
    /\ Len(shape.slow) = 1 /\ shape.slow[1].time = 2

====
